---- MODULE Spec2Model ----
(***************************************************************************)
(* Model of the per-guild song queue of chune (src/src/bot.rs): the        *)
(* DashMap registry `guilds`, the play and skip command handlers, the      *)
(* queue advance `check_guild_queue` and the track-end callback            *)
(* `SongEndHandler::act`.  One guild id is modelled; every access to its   *)
(* entry goes through the DashMap shard lock, which `get_mut` keeps held   *)
(* for as long as the returned RefMut lives and which `insert` and         *)
(* `remove` take for the duration of the call.                             *)
(***************************************************************************)
EXTENDS Integers, Sequences, FiniteSets, TLC

\* ---- bounds of the model ------------------------------------------------
NumPlays == 2        \* play commands issued against the guild
NumSkips == 1        \* skip commands issued against the guild
MaxEntries == 2      \* entries of the longest playlist a play resolves to
NumChannels == 2     \* voice channels a play can come from

Plays == 1 .. NumPlays
Skips == 1 .. NumSkips
MaxStreams == NumPlays * MaxEntries
StreamIds == 1 .. MaxStreams
Channels == 1 .. NumChannels

\* ---- processes ----------------------------------------------------------
PlayProc(p) == <<"play", p>>
SkipProc(k) == <<"skip", k>>
EndProc(s) == <<"end", s>>
Commands == {PlayProc(p) : p \in Plays} \cup {SkipProc(k) : k \in Skips}
Procs == Commands \cup {EndProc(s) : s \in StreamIds}
IsCommand(c) == c \in Commands

\* ---- values -------------------------------------------------------------
GuildId == 1
None == 0
Free == <<>>

\* Guild::new
GuildNew(channel_id, gen) ==
    [gen |-> gen, channel_id |-> channel_id, handle |-> None,
     now_playing |-> None, queue |-> <<>>]

\* the YoutubeDlOutput a play resolves to: a SingleVideo or a Playlist, each
\* entry carrying whether its `url` is Some
SeqsUpTo(n) == UNION {[1 .. k -> BOOLEAN] : k \in 0 .. n}
PlayInputs ==
    {[shape |-> "SingleVideo", has_entries |-> TRUE, urls |-> <<u>>] : u \in BOOLEAN}
    \cup {[shape |-> "Playlist", has_entries |-> TRUE, urls |-> us] : us \in SeqsUpTo(MaxEntries)}
    \cup {[shape |-> "Playlist", has_entries |-> FALSE, urls |-> <<>>]}
NoInput == [shape |-> "none", has_entries |-> FALSE, urls |-> <<>>]

\* PlayError variants a play can fail with before it touches the registry
EarlyErrors == {"NoGuildId", "NoUrl", "NoChannel", "Unknown", "Ytdl"}

VARIABLES
    guilds,      \* InternalHandler.guilds: GuildId -> Guild, partial
    lock,        \* the process holding the shard lock (a live RefMut), or Free
    pc,          \* position of every process
    res,         \* Result a handler returned, per process
    input,       \* resolved YoutubeDlOutput of each play
    channel,     \* voice channel of the user of each play
    local,       \* `new`: the song check_guild_queue popped, per process
    streamItem,  \* song of every track handed to play_source
    nStreams,    \* tracks handed to play_source so far
    nItems,      \* songs pushed so far (songs are numbered in push order)
    nGuilds,     \* Guild values constructed so far
    acks,        \* edits of the interaction response, per command
    popped,      \* history: songs in the order they were popped
    started,     \* history: songs in the order play_source took them
    calls,       \* history: calls made to songbird, by kind
    pushed       \* history: songs each play pushed

vars == <<guilds, lock, pc, res, input, channel, local, streamItem, nStreams,
          nItems, nGuilds, acks, popped, started, calls, pushed>>

Present == GuildId \in DOMAIN guilds
Guild == guilds[GuildId]
NoGuilds == [g \in {} |-> None]
WithGuild(g) == [x \in {GuildId} |-> g]

Init ==
    /\ guilds = NoGuilds
    /\ lock = Free
    /\ pc = [c \in Procs |-> IF IsCommand(c) THEN "new" ELSE "unused"]
    /\ res = [c \in Procs |-> "none"]
    /\ input = [p \in Plays |-> NoInput]
    /\ channel = [p \in Plays |-> None]
    /\ local = [c \in Procs |-> None]
    /\ streamItem = [s \in StreamIds |-> None]
    /\ nStreams = 0
    /\ nItems = 0
    /\ nGuilds = 0
    /\ acks = [c \in Commands |-> <<>>]
    /\ popped = <<>>
    /\ started = <<>>
    /\ calls = [join |-> 0, start |-> 0, stop |-> 0, leave |-> 0]
    /\ pushed = [p \in Plays |-> 0]

\* ---- helpers ------------------------------------------------------------
RECURSIVE GoodPrefixLen(_)
\* number of leading entries whose url is Some: the pushes made before the
\* first `ok_or_else(..)?` bails out
GoodPrefixLen(urls) ==
    IF urls = <<>> \/ ~Head(urls) THEN 0 ELSE 1 + GoodPrefixLen(Tail(urls))

\* songs nItems+1 .. nItems+k, in order
NewSongs(k) == [i \in 1 .. k |-> nItems + i]

\* pushes that put the new songs ahead of the queued ones
PushBackAll_Front(queue, songs) == songs \o queue

\* VecDeque::push_back of each song in turn
PushBackAll(queue, songs) == queue \o songs

\* a pop that reads the front song and leaves it queued
PopFront_Peek(queue) == [song |-> Head(queue), rest |-> queue]

\* VecDeque::pop_front: the song removed and the queue left
PopFront(queue) == [song |-> Head(queue), rest |-> Tail(queue)]

\* interaction_create, lines 114-133: when the handler of a command returns
\* an Err, the error is written to the interaction response; the track-end
\* callback discards the result of check_guild_queue (line 345)
Respond(a, c, result) ==
    IF IsCommand(c) /\ result # "Ok" THEN [a EXCEPT ![c] = Append(@, "err")] ELSE a

Count(kind) == [calls EXCEPT ![kind] = @ + 1]

\* DashMap::insert: the value is stored whether or not the key had one
Insert(gs, g) == [x \in DOMAIN gs \cup {GuildId} |-> g]

\* a removal that leaves the entry in the map
Remove_Keep(gs) == gs

\* DashMap::remove: the key is gone afterwards, whether or not it was there
Remove(gs) == [x \in DOMAIN gs \ {GuildId} |-> gs[x]]

\* a removal that treats a missing entry as an error
RemoveResult_ErrWhenAbsent(present) == IF present THEN "Ok" ELSE "NoChannel"

\* what `self.guilds.remove(&guild_id);` makes of check_guild_queue's result:
\* the removed value is discarded and Ok(()) follows
RemoveResult(present) == "Ok"

\* a callback that creates the entry it does not find
ClearPlaying_OrInsert(gs) ==
    [x \in DOMAIN gs \cup {GuildId} |->
        IF x \in DOMAIN gs
        THEN [gs[x] EXCEPT !.now_playing = None, !.handle = None]
        ELSE GuildNew(None, 0)]

\* a callback that forgets the handle
ClearPlaying_KeepHandle(gs) ==
    IF GuildId \in DOMAIN gs
    THEN [x \in DOMAIN gs |-> [gs[x] EXCEPT !.now_playing = None]]
    ELSE gs

\* act, lines 340-342: `get_mut(..)?` then now_playing = None, handle = None;
\* without an entry nothing is written
ClearPlaying(gs) ==
    IF GuildId \in DOMAIN gs
    THEN [x \in DOMAIN gs |-> [gs[x] EXCEPT !.now_playing = None, !.handle = None]]
    ELSE gs

\* a skip that reports success when the guild has no entry
SkipLookup_OkWhenAbsent(present) ==
    IF present
    THEN [pc |-> "skip_stop", res |-> "none"]
    ELSE [pc |-> "done", res |-> "Ok"]

\* handle_skip, lines 226-230: get_mut(..).ok_or(BotNotPlaying)?
SkipLookup(present) ==
    IF present
    THEN [pc |-> "skip_stop", res |-> "none"]
    ELSE [pc |-> "done", res |-> "BotNotPlaying"]

\* a skip that never calls stop
SkipStopCalls_Never(handle) == calls

\* a skip that calls stop whether or not there is a handle
SkipStopCalls_Always(handle) == Count("stop")

\* handle_skip, lines 232-234: stop is called only on a handle that is Some
SkipStopCalls(handle) == IF handle = None THEN calls ELSE Count("stop")

\* ---- handle_play --------------------------------------------------------
\* lines 146-176: guild id, url, user channel and youtube-dl; any of them can
\* fail before the registry is touched
HandlePlayResolve(p) ==
    /\ pc[PlayProc(p)] = "new"
    /\ UNCHANGED pushed
    /\ \/ \E e \in EarlyErrors :
            /\ res' = [res EXCEPT ![PlayProc(p)] = e]
            /\ pc' = [pc EXCEPT ![PlayProc(p)] = "done"]
            /\ acks' = Respond(acks, PlayProc(p), e)
            /\ UNCHANGED <<input, channel>>
       \/ \E i \in PlayInputs, ch \in Channels :
            /\ input' = [input EXCEPT ![p] = i]
            /\ channel' = [channel EXCEPT ![p] = ch]
            /\ pc' = [pc EXCEPT ![PlayProc(p)] = "get_guild"]
            /\ UNCHANGED <<res, acks>>
    /\ UNCHANGED <<guilds, lock, local, streamItem, nStreams, nItems, nGuilds,
                   popped, started, calls>>

\* get_guild, lines 258-262: guilds.get_mut; Some keeps the lock and takes the
\* caller's channel_id (its last use), None lets the lock go
GetGuildLookup(p) ==
    /\ pc[PlayProc(p)] = "get_guild"
    /\ UNCHANGED pushed
    /\ lock = Free
    /\ IF Present
       THEN /\ guilds' = WithGuild([Guild EXCEPT !.channel_id = channel[p]])
            /\ channel' = [channel EXCEPT ![p] = None]
            /\ lock' = PlayProc(p)
            /\ pc' = [pc EXCEPT ![PlayProc(p)] = "enqueue"]
       ELSE /\ pc' = [pc EXCEPT ![PlayProc(p)] = "insert"]
            /\ UNCHANGED <<guilds, lock, channel>>
    /\ UNCHANGED <<res, input, local, streamItem, nStreams, nItems,
                   nGuilds, acks, popped, started, calls>>

\* get_guild, lines 264-268: guilds.insert of a fresh Guild, whatever is there;
\* debug_assert!(result.is_none()) panics in a build with debug assertions
GetGuildInsert(p) ==
    /\ pc[PlayProc(p)] = "insert"
    /\ UNCHANGED pushed
    /\ lock = Free
    /\ guilds' = Insert(guilds, GuildNew(channel[p], nGuilds + 1))
    /\ channel' = [channel EXCEPT ![p] = None]
    /\ nGuilds' = nGuilds + 1
    /\ \/ pc' = [pc EXCEPT ![PlayProc(p)] = "reget"]
       \/ /\ Present
          /\ pc' = [pc EXCEPT ![PlayProc(p)] = "panicked"]
    /\ UNCHANGED <<lock, res, input, local, streamItem, nStreams,
                   nItems, acks, popped, started, calls>>

\* get_guild, lines 269-272: guilds.get_mut(..).expect(..)
GetGuildRelookup(p) ==
    /\ pc[PlayProc(p)] = "reget"
    /\ UNCHANGED pushed
    /\ lock = Free
    /\ IF Present
       THEN /\ lock' = PlayProc(p)
            /\ pc' = [pc EXCEPT ![PlayProc(p)] = "enqueue"]
       ELSE /\ pc' = [pc EXCEPT ![PlayProc(p)] = "panicked"]
            /\ UNCHANGED lock
    /\ UNCHANGED <<guilds, res, input, channel, local, streamItem, nStreams,
                   nItems, nGuilds, acks, popped, started, calls>>

\* lines 181-212: push the resolved songs, answer the command, drop the RefMut;
\* the match consumes yt_resp
HandlePlayEnqueue(p) ==
    LET i == input[p]
        k == IF i.has_entries THEN GoodPrefixLen(i.urls) ELSE 0
        failed == ~i.has_entries \/ k < Len(i.urls)
    IN  /\ pc[PlayProc(p)] = "enqueue"
        /\ lock = PlayProc(p)
        /\ guilds' = WithGuild([Guild EXCEPT !.queue = PushBackAll(@, NewSongs(k))])
        /\ nItems' = nItems + k
        /\ lock' = Free
        /\ IF failed
           THEN /\ res' = [res EXCEPT ![PlayProc(p)] = "Ytdl"]
                /\ pc' = [pc EXCEPT ![PlayProc(p)] = "done"]
                /\ acks' = Respond(acks, PlayProc(p), "Ytdl")
           ELSE /\ acks' = [acks EXCEPT ![PlayProc(p)] = Append(@, "ok")]
                /\ pc' = [pc EXCEPT ![PlayProc(p)] = "cgq"]
                /\ UNCHANGED res
        /\ input' = [input EXCEPT ![p] = NoInput]
        /\ pushed' = [pushed EXCEPT ![p] = k]
        /\ UNCHANGED <<channel, local, streamItem, nStreams, nGuilds,
                       popped, started, calls>>

\* ---- handle_skip --------------------------------------------------------
\* lines 226-230: guilds.get_mut(..).ok_or(BotNotPlaying)
HandleSkipLookup(k) ==
    /\ pc[SkipProc(k)] = "new"
    /\ UNCHANGED pushed
    /\ lock = Free
    /\ pc' = [pc EXCEPT ![SkipProc(k)] = SkipLookup(Present).pc]
    /\ res' = [res EXCEPT ![SkipProc(k)] = SkipLookup(Present).res]
    /\ lock' = IF SkipLookup(Present).pc = "skip_stop" THEN SkipProc(k) ELSE Free
    /\ acks' = IF SkipLookup(Present).pc = "skip_stop"
               THEN acks
               ELSE Respond(acks, SkipProc(k), SkipLookup(Present).res)
    /\ UNCHANGED <<guilds, input, channel, local, streamItem, nStreams, nItems,
                   nGuilds, popped, started, calls>>

\* lines 232-240: stop the handle if there is one, answer, drop the RefMut;
\* TrackHandle::stop can only fail on a track that has already ended
HandleSkipStop(k) ==
    /\ pc[SkipProc(k)] = "skip_stop"
    /\ UNCHANGED pushed
    /\ lock = SkipProc(k)
    /\ lock' = Free
    /\ pc' = [pc EXCEPT ![SkipProc(k)] = "done"]
    /\ calls' = SkipStopCalls(Guild.handle)
    /\ \/ /\ acks' = [acks EXCEPT ![SkipProc(k)] = Append(@, "ok")]
          /\ res' = [res EXCEPT ![SkipProc(k)] = "Ok"]
       \/ /\ Guild.handle # None
          /\ pc[EndProc(Guild.handle)] # "playing"
          /\ res' = [res EXCEPT ![SkipProc(k)] = "Unknown"]
          /\ acks' = Respond(acks, SkipProc(k), "Unknown")
    /\ UNCHANGED <<guilds, input, channel, local, streamItem, nStreams, nItems,
                   nGuilds, popped, started>>

\* ---- check_guild_queue --------------------------------------------------
\* lines 286-290 and 320-322: take the entry's lock, then return at once when
\* the guild is missing or a song is playing, pop the next song, or turn to
\* the teardown when there is none
CheckGuildQueueEnter(c) ==
    /\ pc[c] = "cgq"
    /\ UNCHANGED pushed
    /\ lock = Free
    /\ IF ~Present
       THEN /\ res' = [res EXCEPT ![c] = "NoChannel"]
            /\ pc' = [pc EXCEPT ![c] = "done"]
            /\ acks' = Respond(acks, c, "NoChannel")
            /\ UNCHANGED <<guilds, lock, local, popped>>
       ELSE IF Guild.now_playing # None
       THEN /\ res' = [res EXCEPT ![c] = "Ok"]
            /\ pc' = [pc EXCEPT ![c] = "done"]
            /\ UNCHANGED <<guilds, lock, local, popped, acks>>
       ELSE IF Guild.queue # <<>>
       THEN /\ guilds' = WithGuild([Guild EXCEPT !.queue = PopFront(@).rest])
            /\ local' = [local EXCEPT ![c] = PopFront(Guild.queue).song]
            /\ popped' = Append(popped, PopFront(Guild.queue).song)
            /\ lock' = c
            /\ pc' = [pc EXCEPT ![c] = "cgq_join"]
            /\ UNCHANGED <<res, acks>>
       ELSE /\ lock' = c
            /\ pc' = [pc EXCEPT ![c] = "cgq_leave"]
            /\ UNCHANGED <<guilds, res, local, popped, acks>>
    /\ UNCHANGED <<input, channel, streamItem, nStreams, nItems, nGuilds,
                   started, calls>>

\* lines 293-294: songbird.join, with the entry's lock held; on Err the
\* popped song is dropped with the RefMut
CheckGuildQueueJoin(c) ==
    /\ pc[c] = "cgq_join"
    /\ UNCHANGED pushed
    /\ lock = c
    /\ calls' = Count("join")
    /\ \/ /\ pc' = [pc EXCEPT ![c] = "cgq_play"]
          /\ UNCHANGED <<lock, res, acks, local>>
       \/ /\ res' = [res EXCEPT ![c] = "Join"]
          /\ pc' = [pc EXCEPT ![c] = "done"]
          /\ acks' = Respond(acks, c, "Join")
          /\ local' = [local EXCEPT ![c] = None]
          /\ lock' = Free
    /\ UNCHANGED <<guilds, input, channel, streamItem, nStreams, nItems,
                   nGuilds, popped, started>>

\* lines 296-312: ffmpeg, play_source, add_event, then record handle and song.
\* add_event fails only on a track that is already over, and no End event
\* is delivered for it.
CheckGuildQueuePlay(c) ==
    LET s == nStreams + 1 IN
    /\ pc[c] = "cgq_play"
    /\ UNCHANGED pushed
    /\ lock = c
    /\ lock' = Free
    /\ local' = [local EXCEPT ![c] = None]
    /\ \/ /\ res' = [res EXCEPT ![c] = "Ffmpeg"]
          /\ pc' = [pc EXCEPT ![c] = "done"]
          /\ acks' = Respond(acks, c, "Ffmpeg")
          /\ UNCHANGED <<guilds, streamItem, nStreams, started, calls>>
       \/ /\ res' = [res EXCEPT ![c] = "Unknown"]
          /\ pc' = [pc EXCEPT ![c] = "done", ![EndProc(s)] = "dropped"]
          /\ acks' = Respond(acks, c, "Unknown")
          /\ streamItem' = [streamItem EXCEPT ![s] = local[c]]
          /\ nStreams' = s
          /\ started' = Append(started, local[c])
          /\ calls' = Count("start")
          /\ UNCHANGED guilds
       \/ /\ res' = [res EXCEPT ![c] = "Ok"]
          /\ pc' = [pc EXCEPT ![c] = "done", ![EndProc(s)] = "playing"]
          /\ streamItem' = [streamItem EXCEPT ![s] = local[c]]
          /\ nStreams' = s
          /\ started' = Append(started, local[c])
          /\ calls' = Count("start")
          /\ guilds' = WithGuild([Guild EXCEPT !.handle = s, !.now_playing = local[c]])
          /\ UNCHANGED acks
    /\ UNCHANGED <<input, channel, nItems, nGuilds, popped>>

\* lines 316-317: songbird.remove, then drop(guild) lets the lock go
CheckGuildQueueLeave(c) ==
    /\ pc[c] = "cgq_leave"
    /\ UNCHANGED pushed
    /\ lock = c
    /\ calls' = Count("leave")
    /\ lock' = Free
    /\ pc' = [pc EXCEPT ![c] = "cgq_remove"]
    /\ UNCHANGED <<guilds, res, input, channel, local, streamItem, nStreams,
                   nItems, nGuilds, acks, popped, started>>

\* line 318: guilds.remove takes the lock again and deletes whatever entry
\* the guild id has now
CheckGuildQueueRemove(c) ==
    /\ pc[c] = "cgq_remove"
    /\ UNCHANGED pushed
    /\ lock = Free
    /\ guilds' = Remove(guilds)
    /\ res' = [res EXCEPT ![c] = RemoveResult(Present)]
    /\ pc' = [pc EXCEPT ![c] = "done"]
    /\ acks' = Respond(acks, c, RemoveResult(Present))
    /\ UNCHANGED <<lock, input, channel, local, streamItem, nStreams, nItems,
                   nGuilds, popped, started, calls>>

\* ---- SongEndHandler -----------------------------------------------------
\* the track ends (by itself, by stop, or by a stream error) and songbird
\* fires TrackEvent::End
TrackEnd(s) ==
    /\ pc[EndProc(s)] = "playing"
    /\ UNCHANGED pushed
    /\ pc' = [pc EXCEPT ![EndProc(s)] = "act"]
    /\ UNCHANGED <<guilds, lock, res, input, channel, local, streamItem,
                   nStreams, nItems, nGuilds, acks, popped, started, calls>>

\* act, lines 339-343: get_mut(..)? then clear now_playing and handle
SongEndAct(s) ==
    /\ pc[EndProc(s)] = "act"
    /\ UNCHANGED pushed
    /\ lock = Free
    /\ guilds' = ClearPlaying(guilds)
    /\ pc' = [pc EXCEPT ![EndProc(s)] = IF Present THEN "cgq" ELSE "done"]
    /\ UNCHANGED <<lock, res, input, channel, local, streamItem, nStreams,
                   nItems, nGuilds, acks, popped, started, calls>>

\* ---- specification ------------------------------------------------------
Next ==
    \/ \E p \in Plays : HandlePlayResolve(p)
    \/ \E p \in Plays : GetGuildLookup(p)
    \/ \E p \in Plays : GetGuildInsert(p)
    \/ \E p \in Plays : GetGuildRelookup(p)
    \/ \E p \in Plays : HandlePlayEnqueue(p)
    \/ \E k \in Skips : HandleSkipLookup(k)
    \/ \E k \in Skips : HandleSkipStop(k)
    \/ \E c \in Procs : CheckGuildQueueEnter(c)
    \/ \E c \in Procs : CheckGuildQueueJoin(c)
    \/ \E c \in Procs : CheckGuildQueuePlay(c)
    \/ \E c \in Procs : CheckGuildQueueLeave(c)
    \/ \E c \in Procs : CheckGuildQueueRemove(c)
    \/ \E s \in StreamIds : TrackEnd(s)
    \/ \E s \in StreamIds : SongEndAct(s)

Spec == Init /\ [][Next]_vars

\* every step but the arrival of a command: a handler that has started, a
\* track that plays and a callback that was fired all run on
Progress ==
    \/ \E p \in Plays : GetGuildLookup(p)
    \/ \E p \in Plays : GetGuildInsert(p)
    \/ \E p \in Plays : GetGuildRelookup(p)
    \/ \E p \in Plays : HandlePlayEnqueue(p)
    \/ \E k \in Skips : HandleSkipStop(k)
    \/ \E c \in Procs : CheckGuildQueueEnter(c)
    \/ \E c \in Procs : CheckGuildQueueJoin(c)
    \/ \E c \in Procs : CheckGuildQueuePlay(c)
    \/ \E c \in Procs : CheckGuildQueueLeave(c)
    \/ \E c \in Procs : CheckGuildQueueRemove(c)
    \/ \E s \in StreamIds : TrackEnd(s)
    \/ \E s \in StreamIds : SongEndAct(s)

FairSpec == Spec /\ WF_vars(Progress)

TypeOK ==
    /\ DOMAIN guilds \subseteq {GuildId}
    /\ lock \in Procs \cup {Free}
    /\ nStreams \in 0 .. MaxStreams
    /\ nItems \in 0 .. MaxStreams
    /\ Len(started) <= Len(popped)

\* ---- properties ---------------------------------------------------------
\* tracks handed to play_source whose End event has not fired yet
ActiveStreams == {s \in StreamIds : pc[EndProc(s)] = "playing"}

\* C1: at most one stream of the guild is active at any time: no track is
\* started while an earlier one has not completed.
C1_MutualExclusion == Cardinality(ActiveStreams) <= 1

\* C2: songs leave the queue in the order they were pushed, none skipped:
\* the k-th song taken for playback is the k-th song enqueued, so nothing
\* is started ahead of a song enqueued before it.
C2_Fifo == \A i \in 1 .. Len(popped) : popped[i] = i

\* C4: an entry that exists is never replaced by a fresh Guild: as long as
\* the guild id stays registered it maps to the same Guild value.
C4_NeverReplaced == [][Present /\ Present' => Guild'.gen = Guild.gen]_vars

\* C5: whenever the entry is removed from the registry, its queue is empty
\* and nothing is playing at that moment.
C5_RemovedOnlyWhenIdleAndEmpty ==
    [][Present /\ ~Present' => Guild.queue = <<>> /\ Guild.now_playing = None]_vars

\* no play command is between its lookup of the guild and its return
PlaysQuiet == \A p \in Plays : pc[PlayProc(p)] \in {"new", "done", "panicked"}

\* a track has just ended, nothing else plays and nothing is queued
LastSongCompleted ==
    /\ Present
    /\ Guild.queue = <<>>
    /\ ActiveStreams = {}
    /\ \E s \in StreamIds : pc[EndProc(s)] = "act"

\* C3: once the last queued song has completed and no play command comes in,
\* the guild is eventually removed from the registry.
C3_DrainToEmpty == (LastSongCompleted /\ PlaysQuiet) ~> (~Present \/ ~PlaysQuiet)

\* C3 witness: a callback tore the guild down after its track ended
C3_Witness ==
    /\ ~Present
    /\ PlaysQuiet
    /\ \E s \in StreamIds : pc[EndProc(s)] = "done" /\ res[EndProc(s)] = "Ok"
    /\ calls.leave > 0

\* C6: a track-end callback that finds no entry for its guild returns at
\* once: it changes neither the registry nor the lock, pops nothing, starts
\* no stream and makes no call to songbird.
C6_LostRaceSafety ==
    [][\A s \in StreamIds :
          (pc[EndProc(s)] = "act" /\ ~Present /\ pc'[EndProc(s)] # "act")
          => /\ pc'[EndProc(s)] = "done"
             /\ guilds' = guilds
             /\ lock' = lock
             /\ popped' = popped
             /\ nStreams' = nStreams
             /\ calls' = calls]_vars

\* C6 witness: a callback has returned from its lookup of a missing guild
C6_Witness ==
    \E s \in StreamIds : pc[EndProc(s)] = "done" /\ res[EndProc(s)] = "none" /\ ~Present

\* C7: a skip that finds no entry returns BotNotPlaying, which is written to
\* the response; it calls nothing on songbird and leaves the registry alone.
C7_SkipWithoutGuild ==
    [][\A k \in Skips :
          (pc[SkipProc(k)] = "new" /\ ~Present /\ pc'[SkipProc(k)] # "new")
          => /\ pc'[SkipProc(k)] = "done"
             /\ res'[SkipProc(k)] = "BotNotPlaying"
             /\ acks'[SkipProc(k)] = <<"err">>
             /\ calls' = calls
             /\ guilds' = guilds
             /\ lock' = lock]_vars

\* C7 witness: a skip has been refused for want of an entry
C7_Witness ==
    \E k \in Skips : pc[SkipProc(k)] = "done" /\ res[SkipProc(k)] = "BotNotPlaying"

\* C8: a skip on a guild whose entry exists but has no handle returns an
\* error.
C8_SkipWithoutHandleErrs ==
    [][\A k \in Skips :
          (pc[SkipProc(k)] = "skip_stop" /\ Guild.handle = None
             /\ pc'[SkipProc(k)] = "done")
          => res'[SkipProc(k)] # "Ok"]_vars

\* C8 as amended: a skip on a guild whose entry exists but has no handle
\* calls no stop, answers with the success mark and returns Ok.
C8_SkipWithoutHandleSucceeds ==
    [][\A k \in Skips :
          (pc[SkipProc(k)] = "skip_stop" /\ Guild.handle = None
             /\ pc'[SkipProc(k)] = "done")
          => /\ res'[SkipProc(k)] = "Ok"
             /\ acks'[SkipProc(k)] = <<"ok">>
             /\ calls' = calls
             /\ guilds' = guilds]_vars

\* C8 witness: a skip went through although stop was never called
C8_Witness ==
    /\ calls.stop = 0
    /\ \E k \in Skips : pc[SkipProc(k)] = "done" /\ res[SkipProc(k)] = "Ok"

\* C9: every play and skip command gets exactly one answer: never a second
\* one, and one by the time its handler has returned.
C9_ExactlyOneAck ==
    \A c \in Commands :
        /\ Len(acks[c]) <= 1
        /\ pc[c] = "done" => Len(acks[c]) = 1

C11_HandleIffNowPlaying ==
    (Present /\ lock = Free) => ((Guild.handle = None) <=> (Guild.now_playing = None))

\* C11 witness: a track was started and recorded, then ended and was cleared
\* by its callback, and the entry is unlocked with neither field set
C11_Witness ==
    /\ Present
    /\ lock = Free
    /\ Guild.handle = None
    /\ Guild.now_playing = None
    /\ \E s \in StreamIds : pc[EndProc(s)] = "cgq" /\ streamItem[s] # None

\* C12: as long as no stop was called, the channel_id of an entry does not
\* change while the entry's handle is set.
C12_DestinationFixedWhilePlaying ==
    [][(Present /\ Present' /\ Guild'.gen = Guild.gen
          /\ Guild.handle # None /\ calls.stop = 0)
       => Guild'.channel_id = Guild.channel_id]_vars

\* C13: a play that fails while its songs are being pushed leaves the queue
\* as it found it, and one that does not fail has pushed every song.
C13_NoPartialEnqueue ==
    [][\A p \in Plays :
          (pc[PlayProc(p)] = "enqueue" /\ pc'[PlayProc(p)] # "enqueue")
          => IF pc'[PlayProc(p)] = "done"
             THEN Guild'.queue = Guild.queue
             ELSE Len(Guild'.queue) = Len(Guild.queue) + Len(input[p].urls)]_vars

\* the songs of a queue
Songs(queue) == {queue[i] : i \in 1 .. Len(queue)}

\* C14: an advance pops the front song and, when the join or the start of
\* the stream then fails, returns Join or Ffmpeg to its caller and leaves the
\* entry registered, unlocked and idle, with the popped song gone and the
\* rest of the queue as the pop left it.
C14_FailedStartLeavesIdle ==
    [][\A c \in Procs :
          /\ (pc[c] = "cgq" /\ pc'[c] = "cgq_join")
             => Guild.queue = <<local'[c]>> \o Guild'.queue
          /\ (pc[c] \in {"cgq_join", "cgq_play"} /\ pc'[c] = "done"
                /\ nStreams' = nStreams)
             => /\ res'[c] \in {"Join", "Ffmpeg"}
                /\ IsCommand(c) => acks'[c] = Append(acks[c], "err")
                /\ Present'
                /\ lock' = Free
                /\ Guild'.now_playing = None
                /\ Guild'.handle = None
                /\ Guild'.queue = Guild.queue
                /\ local[c] \notin Songs(Guild'.queue)]_vars

\* C14 witness: an advance has failed and songs are still queued behind the
\* one it dropped
C14_Witness ==
    /\ Present
    /\ lock = Free
    /\ Guild.now_playing = None
    /\ Guild.queue # <<>>
    /\ \E c \in Procs : pc[c] = "done" /\ res[c] \in {"Join", "Ffmpeg"}

\* C15: a skip on a guild that has a handle calls stop on it and nothing
\* else, leaving the entry as it is; now_playing and handle of an entry are
\* cleared by the track-end callback only; and the callback's advance, when
\* it finds the entry idle, takes the front song or, with an empty queue,
\* turns to the teardown.
C15_SkipOnlyStops ==
    [][/\ \A k \in Skips :
             (pc[SkipProc(k)] = "skip_stop" /\ Guild.handle # None
                /\ pc'[SkipProc(k)] = "done")
             => /\ calls' = [calls EXCEPT !.stop = @ + 1]
                /\ guilds' = guilds
                /\ nStreams' = nStreams
                /\ popped' = popped
       /\ (Present /\ Present' /\ Guild'.gen = Guild.gen
             /\ (\/ Guild.now_playing # None /\ Guild'.now_playing = None
                 \/ Guild.handle # None /\ Guild'.handle = None))
          => \E s \in StreamIds : pc[EndProc(s)] = "act" /\ pc'[EndProc(s)] = "cgq"
       /\ \A s \in StreamIds :
             (pc[EndProc(s)] = "cgq" /\ pc'[EndProc(s)] # "cgq" /\ Present
                /\ Guild.now_playing = None)
             => IF Guild.queue # <<>>
                THEN /\ pc'[EndProc(s)] = "cgq_join"
                     /\ local'[EndProc(s)] = Head(Guild.queue)
                ELSE pc'[EndProc(s)] = "cgq_leave"]_vars

\* C15 witness: a skip stopped a playing track and a callback's advance
\* then started a further song
C15_Witness ==
    /\ calls.stop >= 1
    /\ nStreams >= 2
    /\ \E k \in Skips : pc[SkipProc(k)] = "done" /\ res[SkipProc(k)] = "Ok"
    /\ \E s \in StreamIds : pc[EndProc(s)] = "done" /\ res[EndProc(s)] = "Ok" /\ Present

\* C16: a play that enqueues on a guild that is playing appends its songs, in
\* their order, behind the queued ones and changes nothing else, and its
\* advance, finding the guild still playing, returns Ok without a change;
\* an advance that finds the guild idle takes one song only, the front one,
\* and starts no more than that one.
C16_PlayOnlyGrowsQueue ==
    [][\A p \in Plays :
          /\ (pc[PlayProc(p)] = "enqueue" /\ pc'[PlayProc(p)] = "cgq"
                /\ Guild.now_playing # None)
             => /\ Present'
                /\ Guild'.queue =
                     Guild.queue \o [i \in 1 .. Len(input[p].urls) |-> nItems + i]
                /\ Guild'.now_playing = Guild.now_playing
                /\ Guild'.handle = Guild.handle
                /\ nStreams' = nStreams
                /\ popped' = popped
          /\ (pc[PlayProc(p)] = "cgq" /\ pc'[PlayProc(p)] # "cgq" /\ Present
                /\ Guild.now_playing # None)
             => /\ guilds' = guilds
                /\ nStreams' = nStreams
                /\ popped' = popped
                /\ calls' = calls
                /\ pc'[PlayProc(p)] = "done"
                /\ res'[PlayProc(p)] = "Ok"
          /\ (pc[PlayProc(p)] = "cgq" /\ pc'[PlayProc(p)] = "cgq_join")
             => /\ Guild.queue = <<local'[PlayProc(p)]>> \o Guild'.queue
                /\ popped' = Append(popped, Head(Guild.queue))
          /\ (pc[PlayProc(p)] = "cgq_play" /\ pc'[PlayProc(p)] = "done")
             => /\ nStreams' <= nStreams + 1
                /\ Guild'.queue = Guild.queue
                /\ popped' = popped]_vars

\* C16 witness: the first play queued two songs and started the first only,
\* the second play added its song behind the one still queued
C16_Witness ==
    /\ Present
    /\ nStreams = 1
    /\ Guild.now_playing = 1
    /\ Guild.queue = <<2, 3>>
    /\ \A p \in Plays : pc[PlayProc(p)] = "done" /\ res[PlayProc(p)] = "Ok"

\* no command handler and no callback is under way
NothingInProgress ==
    \A c \in Procs : pc[c] \in {"new", "unused", "playing", "dropped", "done", "panicked"}

\* C17: when no play, advance or callback is under way, an entry with
\* nothing playing has nothing queued.
C17_NoStrandedSongs ==
    (NothingInProgress /\ Present /\ Guild.now_playing = None) => Guild.queue = <<>>

\* C18: every active stream of the guild is the one its entry records: the
\* entry exists and its now_playing is the song of that stream, so the entry
\* is neither removed nor replaced while a stream is active.
C18_ActiveStreamIsNowPlaying ==
    \A s \in ActiveStreams : Present /\ Guild.now_playing = streamItem[s]

\* every handler and callback has run to its end and every track is over
AllOver ==
    \A c \in Procs : pc[c] \in {"new", "unused", "dropped", "done", "panicked"}

\* no join and no start of a stream has failed, and no play failed on its
\* youtube-dl output
NothingFailed ==
    /\ calls.join = nStreams
    /\ \A s \in StreamIds : pc[EndProc(s)] # "dropped"
    /\ \A p \in Plays : res[PlayProc(p)] # "Ytdl"

\* C19: when every track completes and no join or start fails, then, once
\* all is over, every song that was pushed has been started, and no play
\* that pushed a song was told NoChannel by its advance.
C19_NoSongLost ==
    (AllOver /\ NothingFailed)
    => /\ \A i \in 1 .. nItems : i \in Songs(started)
       /\ \A p \in Plays :
             ~(pushed[p] > 0 /\ res[PlayProc(p)] = "NoChannel"
                 /\ acks[PlayProc(p)] = <<"ok", "err">>)

\* C20: a play that ran alone against the empty registry and returned an
\* error without having pushed a song leaves the registry empty.
C20_FailedPlayLeavesNoEntry ==
    \A p \in Plays :
        (/\ pc[PlayProc(p)] = "done"
         /\ res[PlayProc(p)] \notin {"none", "Ok"}
         /\ pushed[p] = 0
         /\ \A q \in Plays \ {p} : pc[PlayProc(q)] = "new")
        => ~Present

====
